---- MODULE Spec2Model ----
(***************************************************************************)
(* Model of pane.go of go-tmux: the pane listing parser (ListPanes) and    *)
(* the per-pane operations (GetCurrentPath, SetFocus, MovePane,            *)
(* GetCurrentSize, Capture, RunCommand) over the external command runner   *)
(* RunCmd.                                                                 *)
(*                                                                         *)
(* Text is a sequence of tokens.  Text that the program inspects or builds *)
(* at run time (runner output, names, targets, numbers) is a sequence of   *)
(* one-character strings; a fixed word of the tmux command language        *)
(* ("join-pane", "-t", ...) is a one-token text.  Go's int is taken to be  *)
(* 32 bits wide (GOARCH=386/arm), the widest int TLC can compute with; on  *)
(* a 64-bit build the same range rule applies at 2^63-1.                   *)
(***************************************************************************)
EXTENDS Integers, Sequences, FiniteSets, TLC

VARIABLES
    panes,      \* the caller's Pane values, by slot
    op,         \* the operation that ran last
    rcv,        \* slot of the receiver of the last operation (0: none)
    inp,        \* the other arguments of the last operation
    calls,      \* argument vectors handed to RunCmd by the last operation
    outs,       \* what RunCmd returned for each of them
    ret,        \* what the last operation returned
    printed     \* what the last operation wrote with fmt.Println

vars == <<panes, op, rcv, inp, calls, outs, ret, printed>>

----------------------------------------------------------------------------
\* Bounds of the model.

NumPanes == 2
MaxLines == 3

----------------------------------------------------------------------------
\* Text helpers.

paneParts == 7

NL == "\n"

Digit == <<"0", "1", "2", "3", "4", "5", "6", "7", "8", "9">>

IsDigit(c) == \E d \in 1..10 : Digit[d] = c

DigitVal(c) == (CHOOSE d \in 1..10 : Digit[d] = c) - 1

MaxInt == 2147483647

MinInt == -MaxInt - 1

NoErr == [isnil |-> TRUE, msg |-> <<>>]

MkErr(m) == [isnil |-> FALSE, msg |-> m]

ErrSyntax == MkErr(<<"strconv.Atoi: invalid syntax">>)

ErrRange == MkErr(<<"strconv.Atoi: value out of range">>)

\* The digit loop of strconv.ParseUint(s, 10, 32) from position i on, with
\* the magnitude n read so far.  big is 0 while n <= MaxInt is exact, 1 when
\* the magnitude is exactly MaxInt + 1, 2 when it lies in MaxInt+2 .. 2^32-1.
\* The loop stops with a syntax error at the first character that is no
\* digit and with a range error as soon as the magnitude passes 2^32-1.
RECURSIVE ScanDigits(_, _, _, _, _)
ScanDigits(s, i, n, big, neg) ==
    IF i > Len(s)
    THEN CASE big = 0 -> [val |-> IF neg THEN -n ELSE n, err |-> NoErr]
           [] big = 1 -> IF neg THEN [val |-> MinInt, err |-> NoErr]
                                ELSE [val |-> MaxInt, err |-> ErrRange]
           [] OTHER   -> [val |-> IF neg THEN MinInt ELSE MaxInt, err |-> ErrRange]
    ELSE IF ~IsDigit(s[i])
    THEN [val |-> 0, err |-> ErrSyntax]
    ELSE LET d == DigitVal(s[i]) IN
         IF big > 0 \/ n > 429496729 \/ (n = 429496729 /\ d > 5)
         THEN [val |-> IF neg THEN MinInt ELSE MaxInt, err |-> ErrRange]
         ELSE IF n > 214748364 \/ (n = 214748364 /\ d > 7)
         THEN ScanDigits(s, i + 1, n, IF n = 214748364 /\ d = 8 THEN 1 ELSE 2, neg)
         ELSE ScanDigits(s, i + 1, n * 10 + d, 0, neg)

\* strconv.Atoi: an optional sign, then decimal digits.  A syntax error
\* yields 0, a value outside the int range yields the nearest bound; both
\* come with a non-nil error.
Atoi(s) ==
    IF Len(s) = 0 THEN [val |-> 0, err |-> ErrSyntax]
    ELSE LET signed == s[1] \in {"+", "-"}
             body   == IF signed THEN Tail(s) ELSE s
         IN  IF Len(body) = 0 THEN [val |-> 0, err |-> ErrSyntax]
             ELSE ScanDigits(body, 1, 0, 0, s[1] = "-")

\* The %d verb of fmt.Sprintf for n >= 0.
RECURSIVE ItoaNat(_)
ItoaNat(n) == IF n < 10 THEN <<Digit[n + 1]>>
              ELSE ItoaNat(n \div 10) \o <<Digit[(n % 10) + 1]>>

\* The %d verb of fmt.Sprintf.
Itoa(n) == IF n >= 0 THEN ItoaNat(n)
           ELSE IF n = MinInt THEN <<"-">> \o ItoaNat(MaxInt \div 10) \o <<"8">>
           ELSE <<"-">> \o ItoaNat(-n)

\* fmt.Sprintf("%s:%d", SessionName, WindowId).
WindowTarget(p) == p.SessionName \o <<":">> \o Itoa(p.WindowId)

\* A variant of PaneTarget with the two numbers in the other order.
PaneTargetSwapped(p) ==
    p.SessionName \o <<":">> \o Itoa(p.ID) \o <<".">> \o Itoa(p.WindowId)

\* fmt.Sprintf("%s:%d.%d", SessionName, WindowId, ID).
PaneTarget(p) == p.SessionName \o <<":">> \o Itoa(p.WindowId) \o <<".">> \o Itoa(p.ID)

\* strings.Split(s, "\n"): the pieces between line terminators; a text with
\* k terminators gives k + 1 pieces, the last possibly empty.
RECURSIVE SplitFrom(_, _, _)
SplitFrom(s, i, cur) ==
    IF i > Len(s) THEN <<cur>>
    ELSE IF s[i] = NL THEN <<cur>> \o SplitFrom(s, i + 1, <<>>)
    ELSE SplitFrom(s, i + 1, Append(cur, s[i]))

Split(s) == SplitFrom(s, 1, <<>>)

\* strings.Join(parts, sep).
RECURSIVE Join(_, _)
Join(parts, sep) ==
    IF Len(parts) = 0 THEN <<>>
    ELSE IF Len(parts) = 1 THEN parts[1]
    ELSE parts[1] \o sep \o Join(Tail(parts), sep)

----------------------------------------------------------------------------
\* The line pattern of ListPanes,
\*   \$([0-9]+):(.+):@([0-9]+):(.+):([0-9]+):%([0-9]+):([01])
\* matched anywhere in the line (the pattern has no anchors).

\* Last position of the run of digits that starts at position i (i - 1 when
\* position i holds no digit): what a greedy [0-9]+ takes from i on.
RECURSIVE NumEnd(_, _)
NumEnd(L, i) == IF i <= Len(L) /\ IsDigit(L[i]) THEN NumEnd(L, i + 1) ELSE i - 1

\* The pattern's literals and digit groups lie in L as they must when the
\* match starts at s, group 2 ends at e2, group 4 ends at e4 and the four
\* digit groups end at e1, e3, e5 and e6.  A line holds no line terminator,
\* so "." matches each of its characters.
Fits(L, s, e2, e4, e1, e3, e5, e6) ==
    /\ L[s] = "$"
    /\ e1 >= s + 1 /\ e1 + 1 <= Len(L) /\ L[e1 + 1] = ":"
    /\ e2 >= e1 + 2 /\ e2 + 2 <= Len(L) /\ L[e2 + 1] = ":" /\ L[e2 + 2] = "@"
    /\ e3 >= e2 + 3 /\ e3 + 1 <= Len(L) /\ L[e3 + 1] = ":"
    /\ e4 >= e3 + 2 /\ e4 + 1 <= Len(L) /\ L[e4 + 1] = ":"
    /\ e5 >= e4 + 2 /\ e5 + 2 <= Len(L) /\ L[e5 + 1] = ":" /\ L[e5 + 2] = "%"
    /\ e6 >= e5 + 3 /\ e6 + 2 <= Len(L) /\ L[e6 + 1] = ":"
    /\ L[e6 + 2] \in {"0", "1"}

\* Where the four digit groups end when the match starts at s, group 2 ends
\* at e2 and group 4 ends at e4: a [0-9]+ group is always followed by ':' in
\* the pattern, so it takes the whole run of digits, and only the two (.+)
\* groups leave a choice.
DigitEnds(L, s, e2, e4) ==
    << NumEnd(L, s + 1), NumEnd(L, e2 + 3), NumEnd(L, e4 + 2),
       NumEnd(L, NumEnd(L, e4 + 2) + 3) >>

IsMatch(L, m, e) == Fits(L, m[1], m[2], m[3], e[1], e[2], e[3], e[4])

\* The matches of the pattern in L, as <<s, e2, e4>>.
Matches(L) ==
    { m \in {i \in 1..Len(L) : L[i] = "$"}
            \X {i \in 1..Len(L) : i < Len(L) /\ L[i + 1] = ":"}
            \X {i \in 1..Len(L) : i < Len(L) /\ L[i + 1] = ":"} :
        IsMatch(L, m, DigitEnds(L, m[1], m[2], m[3])) }

\* The match the regexp package reports among ms: the leftmost start; from
\* there the first (.+) as long as possible, then the second (.+) as long
\* as possible.
FirstMatch(ms) ==
    CHOOSE m \in ms :
        \A o \in ms :
            \/ m[1] < o[1]
            \/ m[1] = o[1] /\ m[2] > o[2]
            \/ m[1] = o[1] /\ m[2] = o[2] /\ m[3] >= o[3]

\* The whole match and the seven groups of the match m = <<s, e2, e4>> whose
\* digit groups end at e.
Submatch(L, m, e) ==
    << SubSeq(L, m[1], e[4] + 2),
       SubSeq(L, m[1] + 1, e[1]),
       SubSeq(L, e[1] + 2, m[2]),
       SubSeq(L, m[2] + 3, e[2]),
       SubSeq(L, e[2] + 2, m[3]),
       SubSeq(L, m[3] + 2, e[3]),
       SubSeq(L, e[3] + 3, e[4]),
       <<L[e[4] + 2]>> >>

SubmatchOf(L, m) == Submatch(L, m, DigitEnds(L, m[1], m[2], m[3]))

SubmatchIn(L, ms) == IF ms = {} THEN <<>> ELSE SubmatchOf(L, FirstMatch(ms))

\* regexp.FindStringSubmatch: nil (the empty sequence) when the line holds no
\* match, otherwise the whole match followed by the seven groups.
FindStringSubmatch(L) == SubmatchIn(L, Matches(L))

\* A variant of AtoiFailure that hands back the panes read so far.
AtoiFailurePartial(acc, e) == [panes |-> acc, err |-> e]

\* return nil, errAtoi: the panes read so far are dropped.
AtoiFailure(acc, e) == [panes |-> <<>>, err |-> e]

\* A variant of AppendPane that puts the new Pane first.
PrependPane(acc, result, sessionID, windowID, windowIndex, paneIndex) ==
    << [ID          |-> paneIndex,
        SessionId   |-> sessionID,
        SessionName |-> result[3],
        WindowId    |-> windowID,
        WindowName  |-> result[5],
        WindowIndex |-> windowIndex,
        Active      |-> result[8] = <<"1">>] >> \o acc

\* panes = append(panes, Pane{...}) from the groups of a match and its four
\* converted numbers.
AppendPane(acc, result, sessionID, windowID, windowIndex, paneIndex) ==
    Append(acc, [ID          |-> paneIndex,
                 SessionId   |-> sessionID,
                 SessionName |-> result[3],
                 WindowId    |-> windowID,
                 WindowName  |-> result[5],
                 WindowIndex |-> windowIndex,
                 Active      |-> result[8] = <<"1">>])

\* The loop over the output lines: a line without a match is skipped, a
\* matched number that strconv.Atoi rejects ends the call with that error
\* and no panes, and any other match appends one Pane.
RECURSIVE ParseLines(_, _, _)
\* The four conversions of a matched line, in the order of the code.
Convert(outLines, i, acc, result, sessionID, windowID, windowIndex, paneIndex) ==
    IF ~sessionID.err.isnil THEN AtoiFailure(acc, sessionID.err)
    ELSE IF ~windowID.err.isnil THEN AtoiFailure(acc, windowID.err)
    ELSE IF ~windowIndex.err.isnil THEN AtoiFailure(acc, windowIndex.err)
    ELSE IF ~paneIndex.err.isnil THEN AtoiFailure(acc, paneIndex.err)
    ELSE ParseLines(outLines, i + 1,
                    AppendPane(acc, result, sessionID.val, windowID.val,
                               windowIndex.val, paneIndex.val))

\* One turn of the loop, with result what FindStringSubmatch gave.
LineStep(outLines, i, acc, result) ==
    IF Len(result) <= paneParts THEN ParseLines(outLines, i + 1, acc)
    ELSE Convert(outLines, i, acc, result, Atoi(result[2]), Atoi(result[4]),
                 Atoi(result[6]), Atoi(result[7]))

ParseLines(outLines, i, acc) ==
    IF i > Len(outLines) THEN [panes |-> acc, err |-> NoErr]
    ELSE LineStep(outLines, i, acc, FindStringSubmatch(outLines[i]))

----------------------------------------------------------------------------
\* Values the model draws its inputs from.

main  == <<"m", "a", "i", "n">>
dev   == <<"d", "e", "v">>
shell == <<"s", "h", "e", "l", "l">>
vim   == <<"v", "i", "m">>
home  == <<"/", "h", "o", "m", "e", "/", "u", "s", "e", "r">>

MkPane(id, sid, sname, wid, wname, widx, active) ==
    [ID |-> id, SessionId |-> sid, SessionName |-> sname, WindowId |-> wid,
     WindowName |-> wname, WindowIndex |-> widx, Active |-> active]

\* Pane values a caller holds at the start, slot by slot: a pane of session
\* main, a pane of another session, a pane of another window of main, ...
PaneValues ==
    << MkPane(1, 1, main, 2, shell, 0, TRUE),
       MkPane(0, 2, dev, 13, vim, 1, TRUE),
       MkPane(2, 1, main, 10, shell, 3, FALSE) >>

InitialPane(i) == PaneValues[((i - 1) % Len(PaneValues)) + 1]

\* What RunCmd may return: (stdout, stderr, err).  The runner is outside the
\* program; each call of it may succeed with any output or fail.
Ok(out) == [stdout |-> out, stderr |-> <<>>, err |-> NoErr]

RunnerErr == MkErr(<<"exit status 1">>)

Failed == [stdout |-> <<>>, stderr |-> <<"n", "o", " ", "s", "e", "r", "v", "e", "r">>,
           err |-> RunnerErr]

PathOutputs ==
    { home \o <<NL>>, home, <<>>, <<NL>>, <<"/">> \o <<NL, NL>> }

SizeOutputs ==
    { <<"8", "0", "x", "2", "4", NL>>,
      <<"8", "0", "x", "2", "4">>,
      <<>>,
      <<"8", "0", NL>>,
      <<"w", "x", "h", NL>>,
      <<"8", "0", "x", "2", "4", "x", "3", NL>>,
      <<"9", "9", "9", "9", "9", "9", "9", "9", "9", "9", "x", "1", NL>> }

CaptureOutputs == { <<"$", " ", "l", "s", NL>>, <<>> }

Commands == { <<"l", "s">>, <<>> }

ScopeArgs == { <<>>, << <<"-s">>, <<"-t">>, main >> }

\* One line of list-panes output for pane p under the format of ListPanes:
\* $<session id>:<session name>:@<window id>:<window name>:<window index>:
\* %<pane id>:<0|1>.
FormatLine(p) ==
    <<"$">> \o Itoa(p.SessionId) \o <<":">> \o p.SessionName \o <<":", "@">>
    \o Itoa(p.WindowId) \o <<":">> \o p.WindowName \o <<":">>
    \o Itoa(p.WindowIndex) \o <<":", "%">> \o Itoa(p.ID) \o <<":">>
    \o <<IF p.Active THEN "1" ELSE "0">>

\* Panes the multiplexer lists.
ListedPanes ==
    { MkPane(0, 1, main, 1, shell, 0, TRUE),
      MkPane(1, 1, main, 1, shell, 0, FALSE),
      MkPane(12, 3, dev, 20, vim, 1, FALSE) }

WellFormedLines == { FormatLine(p) : p \in ListedPanes }

\* A pane line inside other text on the same line.
EmbeddedPane == MkPane(1, 1, main, 1, shell, 0, FALSE)

EmbeddedLines == { <<">", " ">> \o FormatLine(EmbeddedPane) \o <<" ", "<">> }

\* Lines that hold no pane line: a blank line, a message, a line whose
\* session id is not a number.
BadIdLine ==
    <<"$", "x", ":">> \o main \o <<":", "@", "1", ":">> \o shell
    \o <<":", "0", ":", "%", "0", ":", "1">>

NoiseLines ==
    { <<>>,
      <<"n", "o", " ", "s", "e", "r", "v", "e", "r">>,
      BadIdLine }

\* A line of the pane shape whose window id does not fit an int.
OverflowLines ==
    { <<"$", "1", ":">> \o main
      \o <<":", "@", "9", "9", "9", "9", "9", "9", "9", "9", "9", "9", ":">>
      \o shell \o <<":", "0", ":", "%", "0", ":", "1">> }

ListLines == WellFormedLines \cup EmbeddedLines \cup NoiseLines \cup OverflowLines

\* The output of a listing: each line followed by a line terminator.
RECURSIVE Unlines(_)
Unlines(ls) == IF Len(ls) = 0 THEN <<>> ELSE Head(ls) \o <<NL>> \o Unlines(Tail(ls))

ListOutputs == { Unlines(ls) : ls \in UNION { [1..k -> ListLines] : k \in 0..MaxLines } }

ListResults == { Ok(o) : o \in ListOutputs } \cup { Failed }

SmallListResults ==
    { Ok(Unlines(<<l>>)) : l \in EmbeddedLines \cup OverflowLines } \cup { Failed }

PathResults == { Ok(o) : o \in PathOutputs } \cup { Failed }

SizeResults == { Ok(o) : o \in SizeOutputs } \cup { Failed }

CaptureResults == { Ok(o) : o \in CaptureOutputs } \cup { Failed }

\* Results of a command whose output is not read.
PlainResults == { Ok(<<>>), Failed }

----------------------------------------------------------------------------
\* The operations.

Ret0 == [panic |-> FALSE, err |-> NoErr, str |-> <<>>, w |-> 0, h |-> 0, panes |-> <<>>]

Panic == [Ret0 EXCEPT !.panic = TRUE]

\* The arguments of an operation besides its receiver: the slot of
\* pane_target and focus (MovePane), command (RunCommand).
Inp0 == [tgt |-> 0, focus |-> FALSE, command |-> <<>>]

format ==
    Join(<< <<"#{session_id}">>, <<"#{session_name}">>, <<"#{window_id}">>,
            <<"#{window_name}">>, <<"#{window_index}">>, <<"#{pane_id}">>,
            <<"#{pane_active}">> >>, <<":">>)

\* ListPanes(args) with r what RunCmd returns.
ListPanes(args, r) ==
    /\ op' = "ListPanes"
    /\ rcv' = 0
    /\ inp' = Inp0
    /\ calls' = << << <<"list-panes">>, <<"-F">>, format >> \o args >>
    /\ outs' = <<r>>
    /\ ret' = IF ~r.err.isnil THEN [Ret0 EXCEPT !.err = r.err]
              ELSE ParseLines(Split(r.stdout), 1, <<>>) @@ Ret0
    /\ printed' = <<>>
    /\ UNCHANGED panes

\* p.GetCurrentPath() for the pane in slot i.  Slicing off the last byte of
\* an empty output is a run-time panic.
GetCurrentPath(i, r) ==
    /\ op' = "GetCurrentPath"
    /\ rcv' = i
    /\ inp' = Inp0
    /\ calls' = << << <<"display-message">>, <<"-P">>, <<"-F">>,
                      <<"#{pane_current_path}">> >> >>
    /\ outs' = <<r>>
    /\ ret' = IF ~r.err.isnil THEN [Ret0 EXCEPT !.err = r.err]
              ELSE IF Len(r.stdout) = 0 THEN Panic
              ELSE [Ret0 EXCEPT !.str = SubSeq(r.stdout, 1, Len(r.stdout) - 1)]
    /\ printed' = <<>>
    /\ UNCHANGED panes

\* A variant of SetFocus that returns the first error without the second
\* command.
SetFocusEarlyReturn(i, r1, r2) ==
    /\ op' = "SetFocus"
    /\ rcv' = i
    /\ inp' = Inp0
    /\ calls' = IF ~r1.err.isnil
                THEN << << <<"select-window">>, <<"-t">>, WindowTarget(panes[i]) >> >>
                ELSE << << <<"select-window">>, <<"-t">>, WindowTarget(panes[i]) >>,
                        << <<"select-pane">>, <<"-t">>, PaneTarget(panes[i]) >> >>
    /\ outs' = IF ~r1.err.isnil THEN <<r1>> ELSE <<r1, r2>>
    /\ ret' = [Ret0 EXCEPT !.err = IF ~r1.err.isnil THEN r1.err ELSE r2.err]
    /\ printed' = <<>>
    /\ UNCHANGED panes

\* p.SetFocus() for the pane in slot i: select-window, then select-pane;
\* err is overwritten by the second call.
SetFocus(i, r1, r2) ==
    /\ op' = "SetFocus"
    /\ rcv' = i
    /\ inp' = Inp0
    /\ calls' = << << <<"select-window">>, <<"-t">>, WindowTarget(panes[i]) >>,
                   << <<"select-pane">>, <<"-t">>, PaneTarget(panes[i]) >> >>
    /\ outs' = <<r1, r2>>
    /\ ret' = [Ret0 EXCEPT !.err = r2.err]
    /\ printed' = <<>>
    /\ UNCHANGED panes

\* A variant of MoveArgs with the test of focus inverted.
MoveArgsInverted(p, t, focus) ==
    << <<"join-pane">>, <<"-s">>, PaneTarget(p), <<"-t">>, WindowTarget(t) >>
    \o (IF focus THEN << <<"-d">> >> ELSE <<>>)

\* The argument vector of MovePane: join-pane from the receiver's pane to
\* the target's window, with -d appended unless focus is set.
MoveArgs(p, t, focus) ==
    << <<"join-pane">>, <<"-s">>, PaneTarget(p), <<"-t">>, WindowTarget(t) >>
    \o (IF ~focus THEN << <<"-d">> >> ELSE <<>>)

\* A variant of MovedPane that leaves WindowId as it was.
MovedPaneNameOnly(p, t) == [p EXCEPT !.WindowName = t.WindowName]

\* A variant of MovedPane that also takes the target's session.
MovedPaneSession(p, t) ==
    [p EXCEPT !.WindowName = t.WindowName, !.WindowId = t.WindowId,
              !.SessionName = t.SessionName, !.SessionId = t.SessionId]

\* The receiver after MovePane: WindowName and WindowId are the target's.
MovedPane(p, t) == [p EXCEPT !.WindowName = t.WindowName, !.WindowId = t.WindowId]

\* p.MovePane(pane_target, focus) for the panes in slots i and j; the two
\* fields are written whatever RunCmd returned.
MovePane(i, j, focus, r) ==
    /\ op' = "MovePane"
    /\ rcv' = i
    /\ inp' = [Inp0 EXCEPT !.tgt = j, !.focus = focus]
    /\ calls' = << MoveArgs(panes[i], panes[j], focus) >>
    /\ outs' = <<r>>
    /\ printed' = << <<"MOVE PANE FROM ">>, PaneTarget(panes[i]), <<"TO">>,
                     WindowTarget(panes[j]) >>
    /\ panes' = [panes EXCEPT ![i] = MovedPane(panes[i], panes[j])]
    /\ ret' = [Ret0 EXCEPT !.err = r.err]

\* Position of the first "x" in s, 0 when there is none.
RECURSIVE IndexX(_, _)
IndexX(s, i) == IF i > Len(s) THEN 0 ELSE IF s[i] = "x" THEN i ELSE IndexX(s, i + 1)

\* strings.SplitN(s, "x", 2).
SplitN2(s) ==
    LET k == IndexX(s, 1)
    IN  IF k = 0 THEN <<s>> ELSE << SubSeq(s, 1, k - 1), SubSeq(s, k + 1, Len(s)) >>

\* p.GetCurrentSize() for the pane in slot i.  Slicing off the last byte of
\* an empty output and indexing data[1] when the output holds no "x" are
\* run-time panics; the errors of strconv.Atoi are dropped.
GetCurrentSize(i, r) ==
    /\ op' = "GetCurrentSize"
    /\ rcv' = i
    /\ inp' = Inp0
    /\ calls' = << << <<"display-message">>, <<"-p">>, <<"-t">>, PaneTarget(panes[i]),
                      <<"-F">>, <<"#{pane_width}x#{pane_height}">> >> >>
    /\ outs' = <<r>>
    /\ ret' = IF ~r.err.isnil THEN [Ret0 EXCEPT !.err = r.err]
              ELSE IF Len(r.stdout) = 0 THEN Panic
              ELSE LET data == SplitN2(SubSeq(r.stdout, 1, Len(r.stdout) - 1))
                   IN  IF Len(data) < 2 THEN Panic
                       ELSE [Ret0 EXCEPT !.w = Atoi(data[1]).val,
                                         !.h = Atoi(data[2]).val]
    /\ printed' = <<>>
    /\ UNCHANGED panes

\* p.Capture() for the pane in slot i.
Capture(i, r) ==
    /\ op' = "Capture"
    /\ rcv' = i
    /\ inp' = Inp0
    /\ calls' = << << <<"capture-pane">>, <<"-t">>, PaneTarget(panes[i]), <<"-p">> >> >>
    /\ outs' = <<r>>
    /\ ret' = IF ~r.err.isnil THEN [Ret0 EXCEPT !.str = r.stderr, !.err = r.err]
              ELSE [Ret0 EXCEPT !.str = r.stdout]
    /\ printed' = <<>>
    /\ UNCHANGED panes

\* p.RunCommand(command) for the pane in slot i.
RunCommand(i, command, r) ==
    /\ op' = "RunCommand"
    /\ rcv' = i
    /\ inp' = [Inp0 EXCEPT !.command = command]
    /\ calls' = << << <<"send-keys">>, <<"-t">>, PaneTarget(panes[i]), command,
                      <<"C-m">> >> >>
    /\ outs' = <<r>>
    /\ ret' = IF ~r.err.isnil
              THEN [Ret0 EXCEPT !.err = MkErr(r.err.msg \o <<": ">> \o r.stderr)]
              ELSE Ret0
    /\ printed' = <<>>
    /\ UNCHANGED panes

----------------------------------------------------------------------------
\* The caller holds NumPanes Pane values and calls the operations in any
\* order, with the runner answering in any of the ways above.

Slots == 1..NumPanes

Init ==
    /\ panes = [i \in Slots |-> InitialPane(i)]
    /\ op = "none"
    /\ rcv = 0
    /\ inp = Inp0
    /\ calls = <<>>
    /\ outs = <<>>
    /\ ret = Ret0
    /\ printed = <<>>

Next ==
    \/ \E a \in ScopeArgs, r \in SmallListResults : ListPanes(a, r)
    \/ \E i \in Slots, r \in PathResults : GetCurrentPath(i, r)
    \/ \E i \in Slots, r1, r2 \in PlainResults : SetFocus(i, r1, r2)
    \/ \E i, j \in Slots, focus \in BOOLEAN, r \in PlainResults : MovePane(i, j, focus, r)
    \/ \E i \in Slots, r \in SizeResults : GetCurrentSize(i, r)
    \/ \E i \in Slots, r \in CaptureResults : Capture(i, r)
    \/ \E i \in Slots, c \in Commands, r \in PlainResults : RunCommand(i, c, r)

Spec == Init /\ [][Next]_vars

\* The listing alone, called once on any output of up to MaxLines lines.
InitList ==
    /\ panes = [i \in Slots |-> InitialPane(i)]
    /\ op = "none"
    /\ rcv = 0
    /\ inp = Inp0
    /\ calls = <<>>
    /\ outs = <<>>
    /\ ret = Ret0
    /\ printed = <<>>

NextList ==
    /\ op = "none"
    /\ \E r \in ListResults : ListPanes(<<>>, r)

SpecList == InitList /\ [][NextList]_vars

----------------------------------------------------------------------------
\* Properties of the listing (checked under SpecList).

\* The listing ran and the runner succeeded.
Listed == op = "ListPanes" /\ outs[1].err.isnil

\* The lines of the runner's output, without the empty piece that follows
\* the last line terminator.
OutputLines ==
    LET pieces == Split(outs[1].stdout) IN SubSeq(pieces, 1, Len(pieces) - 1)

IsWellFormed(l) == l \in WellFormedLines

HoldsPaneLine(l) == l \in WellFormedLines \cup EmbeddedLines

\* The pane a line was written from.
PaneWritten(l) ==
    IF l \in EmbeddedLines THEN EmbeddedPane
    ELSE CHOOSE p \in ListedPanes : FormatLine(p) = l

PanesWritten(ls) == [k \in 1..Len(ls) |-> PaneWritten(ls[k])]

HasOverflowLine == \E k \in 1..Len(OutputLines) : OutputLines[k] \in OverflowLines

HasBadIdLine == \E k \in 1..Len(OutputLines) : OutputLines[k] = BadIdLine

\* C1 as stated: on a successful run whose matched numbers all fit an int,
\* the panes returned are those of the well-formed lines, in order, and
\* every other line (blank, message, pane line inside other text) adds no
\* record and no error.
C1_Original ==
    (Listed /\ ~HasOverflowLine) =>
        /\ ret.err.isnil
        /\ ret.panes = PanesWritten(SelectSeq(OutputLines, IsWellFormed))

\* C1 as amended: on a successful run whose matched numbers all fit an int,
\* ListPanes returns a nil error and one Pane per line that holds a pane
\* line, alone or inside other text, in the order of the lines; a line that
\* holds none adds no record and no error.
C1_Listing ==
    (Listed /\ ~HasOverflowLine) =>
        /\ ~ret.panic
        /\ ret.err.isnil
        /\ ret.panes = PanesWritten(SelectSeq(OutputLines, HoldsPaneLine))

\* A well-formed line, a noise line and a pane line inside other text gave
\* the panes of the first and the third line, in that order.
C1_Witness ==
    /\ Listed
    /\ Len(OutputLines) = 3
    /\ OutputLines[1] \in WellFormedLines
    /\ OutputLines[2] \in NoiseLines
    /\ OutputLines[3] \in EmbeddedLines
    /\ PaneWritten(OutputLines[1]) # EmbeddedPane
    /\ ret.err.isnil
    /\ ret.panes = <<PaneWritten(OutputLines[1]), EmbeddedPane>>

\* C2 as stated: a line of the seven-field shape whose session id is not a
\* number makes ListPanes return no panes and a non-nil error.
C2_Original ==
    (Listed /\ HasBadIdLine) => (~ret.err.isnil /\ ret.panes = <<>>)

\* C2 as amended: a line that matches the pattern and holds a number that
\* does not fit an int makes ListPanes return no panes and the conversion
\* error, whatever the lines before it; a line whose id is not made of
\* digits does not match the pattern and is skipped without an error.
C2_FailFast ==
    Listed =>
        /\ HasOverflowLine => (ret.panes = <<>> /\ ret.err = ErrRange)
        /\ (HasBadIdLine /\ ~HasOverflowLine) => ret.err.isnil

\* A well-formed line followed by a line whose window id overflows: the
\* pane of the first line is not returned.
C2_Witness ==
    /\ Listed
    /\ Len(OutputLines) >= 2
    /\ OutputLines[1] \in WellFormedLines
    /\ OutputLines[2] \in OverflowLines
    /\ ~ret.err.isnil
    /\ ret.panes = <<>>

----------------------------------------------------------------------------
\* Properties of the operations (checked under Spec).

\* Some invocation of the runner made by the last operation failed.
RunnerFailed == \E k \in 1..Len(outs) : ~outs[k].err.isnil

\* C3: when an invocation of the runner made by an operation fails, the
\* operation returns a non-nil error (and ListPanes no panes), and no
\* invocation is made twice.
C3_Propagated ==
    /\ RunnerFailed => (~ret.err.isnil /\ ret.panes = <<>>)
    /\ \A a, b \in 1..Len(calls) : a # b => calls[a] # calls[b]

\* C4: SetFocus hands the runner exactly two argument vectors, select-window
\* at the window target and then select-pane at the pane target, the second
\* whatever the first returned, and returns what the second returned.
C4_SetFocus ==
    op = "SetFocus" =>
        /\ calls = << << <<"select-window">>, <<"-t">>, WindowTarget(panes[rcv]) >>,
                      << <<"select-pane">>, <<"-t">>, PaneTarget(panes[rcv]) >> >>
        /\ Len(outs) = 2
        /\ ret.err = outs[2].err
        /\ ~ret.panic

\* SetFocus ran its second command after the first one failed, and returned
\* the nil error of the second.
C4_Witness ==
    /\ op = "SetFocus"
    /\ ~outs[1].err.isnil
    /\ outs[2].err.isnil
    /\ Len(calls) = 2
    /\ ret.err.isnil

\* C5: when MovePane returns, the receiver's WindowName and WindowId are the
\* target's, its ID is what it was, and the value returned is the runner's
\* error, whether the runner failed or not.
C5_MovePane ==
    [][op' = "MovePane" =>
          /\ panes'[rcv'].WindowName = panes[inp'.tgt].WindowName
          /\ panes'[rcv'].WindowId = panes[inp'.tgt].WindowId
          /\ panes'[rcv'].WindowName = panes'[inp'.tgt].WindowName
          /\ panes'[rcv'].WindowId = panes'[inp'.tgt].WindowId
          /\ panes'[rcv'].ID = panes[rcv'].ID
          /\ ret'.err = outs'[1].err
          /\ ~ret'.panic]_vars

\* The runner failed on a move to a window of another session, and the
\* receiver carries that window all the same.
C5_Witness ==
    /\ op = "MovePane"
    /\ ~ret.err.isnil
    /\ rcv = 1
    /\ inp.tgt = 2
    /\ panes[1].WindowId = InitialPane(2).WindowId
    /\ panes[1].WindowName = InitialPane(2).WindowName
    /\ panes[1].WindowId # InitialPane(1).WindowId
    /\ panes[1].ID = InitialPane(1).ID

\* The fields of a Pane that MovePane does not write.
Kept(p) == <<p.ID, p.SessionId, p.SessionName, p.WindowIndex, p.Active>>

\* C6: no operation changes a Pane other than the receiver of MovePane, and
\* of that one only WindowName and WindowId; the target of MovePane keeps
\* every field, and the receiver's pane target keeps its SessionName after
\* a move.
C6_Frame ==
    [][/\ \A i \in Slots :
              /\ Kept(panes'[i]) = Kept(panes[i])
              /\ panes'[i] # panes[i] => (op' = "MovePane" /\ i = rcv')
       /\ op' = "MovePane" =>
              /\ panes'[inp'.tgt] = panes[inp'.tgt]
              /\ SubSeq(PaneTarget(panes'[rcv']), 1, Len(panes[rcv'].SessionName))
                     = panes[rcv'].SessionName]_vars

\* The pane of session main sits in the window of session dev after a move
\* and is still addressed through main.
C6_Witness ==
    /\ op = "MovePane"
    /\ rcv = 1
    /\ panes[1].SessionName = main
    /\ panes[1].SessionId = 1
    /\ panes[1].WindowId = 13
    /\ panes[1].WindowName = vim
    /\ panes[2] = InitialPane(2)

\* t is the decimal numeral of n >= 0: digits only, no leading zero, and
\* strconv.Atoi reads n from it.
IsNumeral(t, n) ==
    /\ Len(t) >= 1
    /\ \A k \in 1..Len(t) : IsDigit(t[k])
    /\ Len(t) > 1 => t[1] # "0"
    /\ Atoi(t) = [val |-> n, err |-> NoErr]

\* t reads <SessionName>:<WindowId>.
IsWindowTarget(t, p) ==
    LET n == Len(p.SessionName) IN
    /\ Len(t) >= n + 2
    /\ SubSeq(t, 1, n) = p.SessionName
    /\ t[n + 1] = ":"
    /\ IsNumeral(SubSeq(t, n + 2, Len(t)), p.WindowId)

\* t reads <SessionName>:<WindowId>.<ID>.
IsPaneTarget(t, p) ==
    \E d \in 1..Len(t) :
        /\ t[d] = "."
        /\ IsWindowTarget(SubSeq(t, 1, d - 1), p)
        /\ IsNumeral(SubSeq(t, d + 1, Len(t)), p.ID)

\* C7: every target an operation hands to the runner is written from the
\* fields the pane has when the operation is called: the pane target
\* SessionName:WindowId.ID of the receiver in SetFocus (second command),
\* MovePane (source), GetCurrentSize, Capture and RunCommand, the window
\* target SessionName:WindowId of the receiver in SetFocus (first command)
\* and of the target in MovePane (destination); main, 2, 1 gives "main:2.1"
\* and "main:2".
C7_Targets ==
    [][/\ op' \in {"Capture", "RunCommand"} =>
              IsPaneTarget(calls'[1][3], panes[rcv'])
       /\ op' = "GetCurrentSize" => IsPaneTarget(calls'[1][4], panes[rcv'])
       /\ op' = "SetFocus" =>
              /\ IsWindowTarget(calls'[1][3], panes[rcv'])
              /\ IsPaneTarget(calls'[2][3], panes[rcv'])
       /\ op' = "MovePane" =>
              /\ IsPaneTarget(calls'[1][3], panes[rcv'])
              /\ IsWindowTarget(calls'[1][5], panes[inp'.tgt])
       /\ (/\ op' = "SetFocus"
           /\ panes[rcv'].SessionName = main
           /\ panes[rcv'].WindowId = 2
           /\ panes[rcv'].ID = 1) =>
              /\ calls'[1][3] = <<"m", "a", "i", "n", ":", "2">>
              /\ calls'[2][3] = <<"m", "a", "i", "n", ":", "2", ".", "1">>]_vars

\* After a move to window 13 the pane of session main is captured at
\* "main:13.1".
C7_Witness ==
    /\ op = "Capture"
    /\ panes[rcv].SessionName = main
    /\ calls[1][3] = <<"m", "a", "i", "n", ":", "1", "3", ".", "1">>

\* The runner's output without its one trailing line terminator, if it has
\* one.
StripTerminator(s) ==
    IF Len(s) > 0 /\ s[Len(s)] = NL THEN SubSeq(s, 1, Len(s) - 1) ELSE s

\* The value of a half of the size: its number, 0 if it does not parse.
Dimension(t) == IF Atoi(t).err.isnil THEN Atoi(t).val ELSE 0

\* The text before the first "x" of s (all of s without one), and after it.
BeforeX(s) == IF IndexX(s, 1) = 0 THEN s ELSE SubSeq(s, 1, IndexX(s, 1) - 1)

AfterX(s) == IF IndexX(s, 1) = 0 THEN <<>> ELSE SubSeq(s, IndexX(s, 1) + 1, Len(s))

\* C8: when the runner succeeds GetCurrentSize returns a nil error for every
\* output: it strips one trailing line terminator, splits on the first "x"
\* and parses both halves, a half that does not parse giving 0.
C8_Size ==
    (op = "GetCurrentSize" /\ outs[1].err.isnil) =>
        /\ ~ret.panic
        /\ ret.err.isnil
        /\ ret.w = Dimension(BeforeX(StripTerminator(outs[1].stdout)))
        /\ ret.h = Dimension(AfterX(StripTerminator(outs[1].stdout)))

\* C9: when the runner succeeds GetCurrentPath returns the output without
\* its one trailing line terminator and nothing else removed, and does not
\* fail on an output that has none.
C9_Path ==
    (op = "GetCurrentPath" /\ outs[1].err.isnil) =>
        /\ ~ret.panic
        /\ ret.err.isnil
        /\ ret.str = StripTerminator(outs[1].stdout)

\* C10: MovePane hands the runner exactly one argument vector, join-pane
\* with the receiver's pane target as source and the target's window target
\* as destination, and "-d" is in it exactly when focus is false.
C10_MoveArgs ==
    [][op' = "MovePane" =>
          /\ Len(calls') = 1
          /\ SubSeq(calls'[1], 1, 5) =
                 << <<"join-pane">>, <<"-s">>, PaneTarget(panes[rcv']), <<"-t">>,
                    WindowTarget(panes[inp'.tgt]) >>
          /\ Len(calls'[1]) \in {5, 6}
          /\ (\E k \in 1..Len(calls'[1]) : calls'[1][k] = <<"-d">>) <=> ~inp'.focus
          /\ Len(calls'[1]) = 6 => calls'[1][6] = <<"-d">>]_vars

\* A move without focus carried "-d" as the sixth argument.
C10_Witness ==
    /\ op = "MovePane"
    /\ ~inp.focus
    /\ Len(calls[1]) = 6
    /\ calls[1][6] = <<"-d">>
    /\ calls[1][1] = <<"join-pane">>

====
